---------------------------- MODULE Spec2Model ----------------------------
(***************************************************************************)
(* The webhook-to-analysis pipeline of backend/index.js: the in-memory     *)
(* analysis store, the POST /api/webhooks/github handler (one suspendable  *)
(* task per delivery, one action per stretch of code between two awaits)   *)
(* and the GET /api/analyses/:repoId query.                                *)
(*                                                                         *)
(* Texts are modelled by what the code does to them.  A completion text    *)
(* and a path parameter are sequences of one-character strings; a log text *)
(* is a run-length encoded character sequence, so that a 50,000 character  *)
(* log is a value TLC can hold.                                            *)
(*                                                                         *)
(* Left out: createdAt (the wall clock at insertion), the console output,  *)
(* the OAuth routes, /api/user and /api/repos.                             *)
(***************************************************************************)
EXTENDS Integers, Sequences, FiniteSets, TLC

VARIABLES
    analysesDB,   \* the in-memory store, index.js line 15
    envToken,     \* whether process.env.GITHUB_PERSONAL_ACCESS_TOKEN is set
    task,         \* one webhook handler task per delivery
    lastQuery     \* the answer to the latest GET /api/analyses/:repoId

vars == <<analysesDB, envToken, task, lastQuery>>

\* Number of webhook deliveries in one run of the model.
MaxDeliveries == 2

Deliveries == 1..MaxDeliveries

\* logText.substring(0, 30000), index.js lines 118 and 136.
MaxLogChars == 30000

(***************************************************************************)
(* Characters and strings                                                  *)
(***************************************************************************)
RECURSIVE StartsWith(_, _)
StartsWith(s, p) ==
    IF p = <<>> THEN TRUE
    ELSE IF s = <<>> THEN FALSE
    ELSE Head(s) = Head(p) /\ StartsWith(Tail(s), Tail(p))

RECURSIVE Drop(_, _)
Drop(s, n) == IF n = 0 \/ s = <<>> THEN s ELSE Drop(Tail(s), n - 1)

\* The character U+0060 (a string literal cannot hold it, so it is named).
BQ == "U+0060"

Fence == <<BQ, BQ, BQ>>
FenceJson == Fence \o <<"j", "s", "o", "n">>

\* responseText.replace(/```json|```/g, ''): a left-to-right scan that drops
\* every match, trying the alternative ```json before ```.
RECURSIVE StripFences(_)
StripFences(s) ==
    IF s = <<>> THEN <<>>
    ELSE IF StartsWith(s, FenceJson) THEN StripFences(Drop(s, Len(FenceJson)))
    ELSE IF StartsWith(s, Fence) THEN StripFences(Drop(s, Len(Fence)))
    ELSE <<Head(s)>> \o StripFences(Tail(s))

WhiteSpace == {" ", "\n", "\t", "\r"}

RECURSIVE TrimStart(_)
TrimStart(s) ==
    IF s # <<>> /\ Head(s) \in WhiteSpace THEN TrimStart(Tail(s)) ELSE s

RECURSIVE TrimEnd(_)
TrimEnd(s) ==
    IF s # <<>> /\ s[Len(s)] \in WhiteSpace
    THEN TrimEnd(SubSeq(s, 1, Len(s) - 1)) ELSE s

\* String.prototype.trim
Trim(s) == TrimEnd(TrimStart(s))

(***************************************************************************)
(* JSON.parse, for the fragment of JSON the completion texts below use:    *)
(* objects, strings without escape sequences, and null, with white space   *)
(* between tokens.  Anything else is a SyntaxError here; the texts of      *)
(* CompletionTexts stay inside the fragment, so the verdict is JSON.parse's.*)
(***************************************************************************)
Undefined == [t |-> "undefined", s |-> <<>>, m |-> <<>>]
JNull == [t |-> "null", s |-> <<>>, m |-> <<>>]
JString(s) == [t |-> "string", s |-> s, m |-> <<>>]
JObject(m) == [t |-> "object", s |-> <<>>, m |-> m]

SyntaxError == [ok |-> FALSE, v |-> Undefined, rest |-> <<>>]
Parsed(v, rest) == [ok |-> TRUE, v |-> v, rest |-> rest]

\* The characters of a string up to its closing quote; s starts after the
\* opening quote.  A raw control character or a backslash ends the parse.
RECURSIVE ParseStringBody(_, _)
ParseStringBody(s, acc) ==
    IF s = <<>> THEN SyntaxError
    ELSE IF Head(s) = "\"" THEN Parsed(JString(acc), Tail(s))
    ELSE IF Head(s) \in {"\\", "\n", "\t", "\r"} THEN SyntaxError
    ELSE ParseStringBody(Tail(s), Append(acc, Head(s)))

RECURSIVE ParseValue(_)
RECURSIVE ParseMembers(_, _)

ParseValue(s0) ==
    LET s == TrimStart(s0) IN
    IF s = <<>> THEN SyntaxError
    ELSE IF Head(s) = "\"" THEN ParseStringBody(Tail(s), <<>>)
    ELSE IF Head(s) = "{" THEN
        LET r == TrimStart(Tail(s)) IN
        IF r # <<>> /\ Head(r) = "}" THEN Parsed(JObject(<<>>), Tail(r))
        ELSE ParseMembers(r, <<>>)
    ELSE IF StartsWith(s, <<"n", "u", "l", "l">>) THEN Parsed(JNull, Drop(s, 4))
    ELSE SyntaxError

\* key : value pairs up to the closing brace; s starts at a key.
ParseMembers(s0, acc) ==
    LET s == TrimStart(s0) IN
    IF s = <<>> \/ Head(s) # "\"" THEN SyntaxError
    ELSE
      LET k == ParseStringBody(Tail(s), <<>>) IN
      IF ~k.ok THEN SyntaxError
      ELSE
        LET c == TrimStart(k.rest) IN
        IF c = <<>> \/ Head(c) # ":" THEN SyntaxError
        ELSE
          LET v == ParseValue(Tail(c)) IN
          IF ~v.ok THEN SyntaxError
          ELSE
            LET acc2 == Append(acc, [k |-> k.v.s, v |-> v.v])
                e == TrimStart(v.rest)
            IN
            IF e = <<>> THEN SyntaxError
            ELSE IF Head(e) = "}" THEN Parsed(JObject(acc2), Tail(e))
            ELSE IF Head(e) = "," THEN ParseMembers(Tail(e), acc2)
            ELSE SyntaxError

\* JSON.parse(text): one value, nothing but white space after it.
JSONParse(text) ==
    LET r == ParseValue(text) IN
    IF r.ok /\ TrimStart(r.rest) = <<>> THEN Parsed(r.v, <<>>) ELSE SyntaxError

\* v[key] for a parsed value v: the last member named key of an object,
\* undefined when there is none or v is a string; reading a property of null
\* throws a TypeError.
RECURSIVE LastMember(_, _, _)
LastMember(m, key, found) ==
    IF m = <<>> THEN found
    ELSE LastMember(Tail(m), key, IF Head(m).k = key THEN Head(m).v ELSE found)

GetProp(v, key) ==
    IF v.t = "null" THEN [throws |-> TRUE, v |-> Undefined]
    ELSE [throws |-> FALSE,
          v |-> IF v.t = "object" THEN LastMember(v.m, key, Undefined)
                ELSE Undefined]

(***************************************************************************)
(* Log texts: a sequence of runs [c |-> character, n |-> count], n > 0.    *)
(***************************************************************************)
RECURSIVE TextLen(_)
TextLen(t) == IF t = <<>> THEN 0 ELSE Head(t).n + TextLen(Tail(t))

\* t.substring(0, k) for k >= 0: the first k characters, all of t when it
\* has no more than k.
RECURSIVE Substring0(_, _)
Substring0(t, k) ==
    IF t = <<>> \/ k = 0 THEN <<>>
    ELSE IF Head(t).n >= k THEN <<[c |-> Head(t).c, n |-> k]>>
    ELSE <<Head(t)>> \o Substring0(Tail(t), k - Head(t).n)

(***************************************************************************)
(* parseInt(string) with no radix, for strings of decimal digits, letters  *)
(* and a sign: white space is skipped, a sign is read, then the longest    *)
(* run of decimal digits; NaN when that run is empty.  (A 0x prefix, which *)
(* parseInt reads as hexadecimal, is outside the strings used here.)       *)
(***************************************************************************)
DigitValue(c) ==
    CASE c = "0" -> 0 [] c = "1" -> 1 [] c = "2" -> 2 [] c = "3" -> 3
      [] c = "4" -> 4 [] c = "5" -> 5 [] c = "6" -> 6 [] c = "7" -> 7
      [] c = "8" -> 8 [] c = "9" -> 9 [] OTHER -> -1

NaN == [nan |-> TRUE, n |-> 0]
Num(n) == [nan |-> FALSE, n |-> n]

RECURSIVE ParseDigits(_, _, _)
ParseDigits(s, acc, seen) ==
    IF s = <<>> \/ DigitValue(Head(s)) < 0
    THEN (IF seen THEN Num(acc) ELSE NaN)
    ELSE ParseDigits(Tail(s), 10 * acc + DigitValue(Head(s)), TRUE)

ParseInt(s0) ==
    LET s == TrimStart(s0) IN
    IF s # <<>> /\ Head(s) = "-" THEN
        LET r == ParseDigits(Tail(s), 0, FALSE) IN
        IF r.nan THEN NaN ELSE Num(0 - r.n)
    ELSE IF s # <<>> /\ Head(s) = "+" THEN ParseDigits(Tail(s), 0, FALSE)
    ELSE ParseDigits(s, 0, FALSE)

\* x == y (loose equality) for a stored repoId x, a number, and y the
\* result of parseInt: NaN equals nothing.
LooseEq(x, y) == ~y.nan /\ x = y.n

(***************************************************************************)
(* The inputs: webhook events, and what the three upstream services answer.*)
(***************************************************************************)
NoRun == [present |-> FALSE, id |-> 0, conclusion |-> "", jobs_url |-> ""]
Run(id, conclusion) ==
    [present |-> TRUE, id |-> id, conclusion |-> conclusion,
     jobs_url |-> "jobs_url"]

RepoA == [id |-> 12, full_name |-> "octo/api"]
RepoB == [id |-> 1, full_name |-> "octo/web"]

NoEvent == [action |-> "", workflow_run |-> NoRun,
            repository |-> [id |-> 0, full_name |-> ""]]

\* WorkflowEvent bodies: two failed runs, and one event for each way of not
\* qualifying (another action, another conclusion, no workflow_run).
Events ==
    { [action |-> "completed", workflow_run |-> Run(101, "failure"),
       repository |-> RepoA],
      [action |-> "completed", workflow_run |-> Run(102, "failure"),
       repository |-> RepoB],
      [action |-> "requested", workflow_run |-> Run(101, "failure"),
       repository |-> RepoA],
      [action |-> "completed", workflow_run |-> Run(101, "success"),
       repository |-> RepoA],
      [action |-> "completed", workflow_run |-> NoRun,
       repository |-> RepoA] }

Job(id, conclusion) == [id |-> id, conclusion |-> conclusion]

\* Answers to the jobs fetch: axios rejects on a network error and on a
\* status outside 2xx; a 2xx body may lack the jobs array.
JobsOutcomes ==
    { [kind |-> "networkError", jobs |-> <<>>],
      [kind |-> "httpError", jobs |-> <<>>],
      [kind |-> "noJobsArray", jobs |-> <<>>],
      [kind |-> "ok", jobs |-> <<Job(30, "success")>>],
      [kind |-> "ok", jobs |-> <<Job(30, "success"), Job(20, "failure"),
                                 Job(10, "failure")>>] }

\* Answers to the log request (maxRedirects 0): no answer at all, or a
\* status with or without a Location header.
RedirectOutcomes ==
    { [kind |-> "networkError", status |-> 0, location |-> FALSE],
      [kind |-> "response", status |-> 302, location |-> TRUE],
      [kind |-> "response", status |-> 302, location |-> FALSE],
      [kind |-> "response", status |-> 404, location |-> FALSE],
      [kind |-> "response", status |-> 307, location |-> TRUE] }

\* Answers to fetch(actualLogUrl): node-fetch rejects on a network error
\* only; any status resolves.
LogBodyOutcomes ==
    { [kind |-> "networkError", status |-> 0],
      [kind |-> "response", status |-> 200],
      [kind |-> "response", status |-> 404] }

ShortLog == <<[c |-> "E", n |-> 7]>>
LongLog == <<[c |-> "a", n |-> 29999], [c |-> "b", n |-> 20001]>>

\* What logTextResponse.text() gives: the body, or a rejection when the
\* body stream breaks.
LogTextOutcomes ==
    { [kind |-> "error", text |-> <<>>],
      [kind |-> "text", text |-> ShortLog],
      [kind |-> "text", text |-> LongLog] }

Quoted(chars) == <<"\"">> \o chars \o <<"\"">>
KeyConclusion == <<"c", "o", "n", "c", "l", "u", "s", "i", "o", "n">>
KeySuggestion == <<"s", "u", "g", "g", "e", "s", "t", "i", "o", "n">>
Member(k, v) == Quoted(k) \o <<":">> \o Quoted(v)
AnalysisJson(x, y) ==
    <<"{">> \o Member(KeyConclusion, x) \o <<",", " ">>
            \o Member(KeySuggestion, y) \o <<"}">>

TextX == <<"X">>
TextY == <<"Y">>

BareText == AnalysisJson(TextX, TextY)
FencedText == FenceJson \o <<"\n">> \o BareText \o <<"\n">> \o Fence \o <<"\n">>
ProseText == <<"S", "o", "r", "r", "y">>
NullText == <<"n", "u", "l", "l">>
NoSuggestionText == <<"{">> \o Member(KeyConclusion, TextX) \o <<"}">>
NoConclusionText == <<"{">> \o Member(KeySuggestion, TextY) \o <<"}">>
FenceInsideText == AnalysisJson(<<"a", BQ, BQ, BQ, "b">>, TextY)

CompletionTexts ==
    { BareText, FencedText, ProseText, NullText, NoSuggestionText,
      NoConclusionText, FenceInsideText }

\* Answers to model.generateContent(prompt) and result.response.text():
\* the request fails, the response is blocked (text() throws), or a text.
CompletionOutcomes ==
    { [kind |-> "error", text |-> <<>>],
      [kind |-> "blocked", text |-> <<>>] }
    \cup { [kind |-> "text", text |-> t] : t \in CompletionTexts }

\* The :repoId path parameters a query is made with.
RepoIdParams == { <<"1", "2">>, <<"1", "2", "a">>, <<"a">> }

\* Queries: each parameter on a session with a user, and one on a session
\* without.
QueryRequests ==
    { [param |-> p, user |-> TRUE] : p \in RepoIdParams }
    \cup { [param |-> <<"1", "2">>, user |-> FALSE] }

(***************************************************************************)
(* The handler's pieces, one operator per expression of the code.          *)
(***************************************************************************)
\* Mutant: the test of workflow_run.conclusion is missing.
QualifiesAnyConclusion(ev) ==
    /\ ev.workflow_run.present
    /\ ev.action = "completed"

\* Mutant: the test of event.action is missing.
QualifiesAnyAction(ev) ==
    /\ ev.workflow_run.present
    /\ ev.workflow_run.conclusion = "failure"

\* event.workflow_run && event.action === 'completed'
\*   && event.workflow_run.conclusion === 'failure'
Qualifies(ev) ==
    /\ ev.workflow_run.present
    /\ ev.action = "completed"
    /\ ev.workflow_run.conclusion = "failure"

\* Mutant: the credential is never found missing.
CredentialNeverMissing(tok) == FALSE

\* !placeholderToken, with placeholderToken read from the environment
CredentialMissing(tok) == ~tok

\* jobs.find(job => job.conclusion === 'failure'): the index of the first
\* match scanning from the front, 0 when find gives undefined.
RECURSIVE FindFrom(_, _)
FindFrom(jobs, i) ==
    IF i > Len(jobs) THEN 0
    ELSE IF jobs[i].conclusion = "failure" THEN i
    ELSE FindFrom(jobs, i + 1)

\* Mutant: without a failed job, the first job is taken.
FailedJobIndexOrFirst(jobs) ==
    IF FindFrom(jobs, 1) = 0 /\ jobs # <<>> THEN 1 ELSE FindFrom(jobs, 1)

\* Mutant: the scan runs from the back (findLast).
RECURSIVE FindBackFrom(_, _)
FindBackFrom(jobs, i) ==
    IF i < 1 THEN 0
    ELSE IF jobs[i].conclusion = "failure" THEN i
    ELSE FindBackFrom(jobs, i - 1)

LastFailedJobIndex(jobs) == FindBackFrom(jobs, Len(jobs))

FailedJobIndex(jobs) == FindFrom(jobs, 1)

\* Mutant: the substring call is missing, the whole text is used.
WholeText(logText) == logText

\* logText.substring(0, 30000)
Truncate(logText) == Substring0(logText, MaxLogChars)

\* JSON.parse(responseText.replace(/```json|```/g, '').trim())
ParseAnalysis(responseText) == JSONParse(Trim(StripFences(responseText)))

\* ParseAnalysis on each completion text, computed once.
AnalysisOf == [text \in CompletionTexts |-> ParseAnalysis(text)]

\* Mutant: the id is the length of the store before the push.
NewIdFromZero(db, ev) == Len(db)

\* Mutant: the id counts the records of the event's repository only.
NewIdPerRepo(db, ev) ==
    Len(SelectSeq(db, LAMBDA a : a.repoId = ev.repository.id)) + 1

\* id: analysesDB.length + 1
NewId(db, ev) == Len(db) + 1

\* The object literal newAnalysis (createdAt left out).
NewAnalysis(db, ev, conclusion, suggestion, logText) ==
    [id |-> NewId(db, ev),
     repoId |-> ev.repository.id,
     repoFullName |-> ev.repository.full_name,
     githubRunId |-> ev.workflow_run.id,
     status |-> ev.workflow_run.conclusion,
     conclusion |-> conclusion,
     suggestion |-> suggestion,
     rawLog |-> Truncate(logText)]

\* Mutant: analysesDB.unshift(newAnalysis), the record goes in front.
PushFront(db, rec) == <<rec>> \o db

\* analysesDB.push(newAnalysis)
Push(db, rec) == Append(db, rec)

\* Mutant: analysis.repoId === repoId, a number against the parameter
\* string, which holds of no record.
FilterByRepoStrict(db, param) == SelectSeq(db, LAMBDA analysis : FALSE)

\* analysesDB.filter(analysis => analysis.repoId == parseInt(repoId))
FilterByRepo(db, param) ==
    SelectSeq(db, LAMBDA analysis : LooseEq(analysis.repoId, ParseInt(param)))

\* Mutant: the route is registered without the isAuthenticated middleware.
NotProtected(sessionUser) == TRUE

\* req.session.user is set
IsAuthenticated(sessionUser) == sessionUser

(***************************************************************************)
(* A handler task.  pc is the await the task is suspended at.  event is    *)
(* the delivery's body; jobs is jobsResponse.data.jobs, failedJob the index*)
(* find returned, logJobId the job id in logUrl and responseText the       *)
(* completion text: what the delivery was given and asked for, kept after  *)
(* the handler ends.  logText and promptLog are locals, and upstreamError  *)
(* says that an answer the task is holding (logRedirectResponse,           *)
(* logTextResponse) carries an HTTP error status; the three are dropped    *)
(* when the handler ends.  calls and responses record what the task sent   *)
(* out, outcome the branch the handler ended in, recId the id it stored    *)
(* under (0: none).                                                        *)
(***************************************************************************)
IdleTask ==
    [pc |-> "idle", event |-> NoEvent, jobs |-> <<>>, failedJob |-> 0,
     logJobId |-> 0, logText |-> <<>>, promptLog |-> <<>>,
     responseText |-> <<>>,
     upstreamError |-> FALSE, calls |-> <<>>, responses |-> <<>>,
     outcome |-> "none", recId |-> 0]

\* Mutant: the two early responses are sent without return, so the
\* handler falls through to line 147 and responds again.
FinishFallsThrough(t, status, outcome, recId) ==
    [t EXCEPT !.pc = "done", !.logText = <<>>, !.promptLog = <<>>,
              !.upstreamError = FALSE,
              !.responses =
                  IF outcome \in {"missingCredential", "noJobFound"}
                  THEN @ \o <<status, 200>> ELSE Append(@, status),
              !.outcome = outcome, !.recId = recId]

\* res.status(status).send(...), and the handler returns.
Finish(t, status, outcome, recId) ==
    [t EXCEPT !.pc = "done", !.logText = <<>>, !.promptLog = <<>>,
              !.upstreamError = FALSE, !.responses = Append(@, status),
              !.outcome = outcome, !.recId = recId]

\* Mutant: the catch block returns, so line 147 is not reached.
CaughtNoResponse(t, outcome) ==
    [Finish(t, 200, outcome, 0) EXCEPT !.responses = t.responses]

\* Mutant: the catch block starts the pipeline again from the jobs fetch.
CaughtRetries(t, outcome) ==
    [t EXCEPT !.pc = "awaitJobs", !.calls = Append(@, "jobs")]

\* Mutant: the catch block answers 500, as the other routes' do.
CaughtAnswers500(t, outcome) == Finish(t, 500, outcome, 0)

\* The catch block (lines 142-144) followed by line 147.
Caught(t, outcome) == Finish(t, 200, outcome, 0)

NoQuery == [param |-> <<>>, authed |-> FALSE, status |-> 0, body |-> <<>>]

Init ==
    /\ analysesDB = <<>>
    /\ envToken \in BOOLEAN
    /\ task = [d \in Deliveries |-> IdleTask]
    /\ lastQuery = NoQuery

\* Mutant: a delivery that goes on to the pipeline is acknowledged on
\* receipt, before its first outbound call.
ReceiveAcksFirst(d, ev) ==
    /\ lastQuery = NoQuery
    /\ task[d].pc = "idle"
    /\ IF d = 1 THEN TRUE ELSE task[d - 1].pc # "idle"
    /\ LET t == [task[d] EXCEPT !.event = ev] IN
       task' = [task EXCEPT ![d] =
           IF ~Qualifies(ev) THEN Finish(t, 200, "ignored", 0)
           ELSE IF CredentialMissing(envToken)
                THEN Finish(t, 400, "missingCredential", 0)
           ELSE [t EXCEPT !.pc = "awaitJobs", !.calls = Append(@, "jobs"),
                          !.responses = Append(@, 200)]]
    /\ UNCHANGED <<analysesDB, envToken, lastQuery>>

\* Mutant: deliveries are handled one at a time, a delivery's handler
\* starting when the handler of the delivery before it has ended.
ReceiveSerial(d, ev) ==
    /\ lastQuery = NoQuery
    /\ task[d].pc = "idle"
    /\ IF d = 1 THEN TRUE ELSE task[d - 1].pc = "done"
    /\ LET t == [task[d] EXCEPT !.event = ev] IN
       task' = [task EXCEPT ![d] =
           IF ~Qualifies(ev) THEN Finish(t, 200, "ignored", 0)
           ELSE IF CredentialMissing(envToken)
                THEN Finish(t, 400, "missingCredential", 0)
           ELSE [t EXCEPT !.pc = "awaitJobs", !.calls = Append(@, "jobs")]]
    /\ UNCHANGED <<analysesDB, envToken, lastQuery>>

\* Lines 71-92: a delivery arrives; the handler runs to its first await.
\* Deliveries are numbered in their order of arrival.
Receive(d, ev) ==
    /\ lastQuery = NoQuery
    /\ task[d].pc = "idle"
    /\ IF d = 1 THEN TRUE ELSE task[d - 1].pc # "idle"
    /\ LET t == [task[d] EXCEPT !.event = ev] IN
       task' = [task EXCEPT ![d] =
           IF ~Qualifies(ev) THEN Finish(t, 200, "ignored", 0)
           ELSE IF CredentialMissing(envToken)
                THEN Finish(t, 400, "missingCredential", 0)
           ELSE [t EXCEPT !.pc = "awaitJobs", !.calls = Append(@, "jobs")]]
    /\ UNCHANGED <<analysesDB, envToken, lastQuery>>

\* Mutant: the log is fetched from logUrl itself, without the request that
\* resolves the redirect.
JobsReturnSkipsRedirect(d, out) ==
    /\ lastQuery = NoQuery
    /\ task[d].pc = "awaitJobs"
    /\ LET t == [task[d] EXCEPT !.jobs = out.jobs]
           i == FailedJobIndex(out.jobs)
       IN
       task' = [task EXCEPT ![d] =
           IF out.kind # "ok" THEN Caught(t, "fetchFailed")
           ELSE IF i = 0 THEN Finish(t, 200, "noJobFound", 0)
           ELSE [t EXCEPT !.pc = "awaitLogBody", !.failedJob = i,
                          !.logJobId = out.jobs[i].id,
                          !.calls = Append(@, "logBody")]]
    /\ UNCHANGED <<analysesDB, envToken, lastQuery>>

\* Lines 90-106: the jobs fetch settles.
JobsReturn(d, out) ==
    /\ lastQuery = NoQuery
    /\ task[d].pc = "awaitJobs"
    /\ LET t == [task[d] EXCEPT !.jobs = out.jobs]
           i == FailedJobIndex(out.jobs)
       IN
       task' = [task EXCEPT ![d] =
           IF out.kind # "ok" THEN Caught(t, "fetchFailed")
           ELSE IF i = 0 THEN Finish(t, 200, "noJobFound", 0)
           ELSE [t EXCEPT !.pc = "awaitLogRedirect", !.failedJob = i, !.logJobId = out.jobs[i].id,
                          !.calls = Append(@, "logRedirect")]]
    /\ UNCHANGED <<analysesDB, envToken, lastQuery>>

\* Lines 102-109: the log request settles.  .catch(err => err.response)
\* turns a rejection into the response it carries (undefined on a network
\* error, then reading .headers throws); any response with a Location
\* header goes on to fetch(actualLogUrl), and fetch(undefined) rejects
\* without a request being made.
LogRedirectReturn(d, out) ==
    /\ lastQuery = NoQuery
    /\ task[d].pc = "awaitLogRedirect"
    /\ LET t == task[d]
           bad == out.status # 302
       IN
       task' = [task EXCEPT ![d] =
           IF out.kind = "networkError" \/ ~out.location
           THEN Caught(t, "fetchFailed")
           ELSE [t EXCEPT !.pc = "awaitLogBody", !.upstreamError = bad,
                          !.calls = Append(@, "logBody")]]
    /\ UNCHANGED <<analysesDB, envToken, lastQuery>>

\* Lines 109-110: fetch(actualLogUrl) settles; the handler then awaits the
\* body text.
LogBodyReturn(d, out) ==
    /\ lastQuery = NoQuery
    /\ task[d].pc = "awaitLogBody"
    /\ LET t == task[d]
           bad == out.status \notin 200..299
       IN
       task' = [task EXCEPT ![d] =
           IF out.kind = "networkError"
           THEN Caught(t, "fetchFailed")
           ELSE [t EXCEPT !.pc = "awaitLogText",
                          !.upstreamError = @ \/ bad]]
    /\ UNCHANGED <<analysesDB, envToken, lastQuery>>

\* Lines 110-122: the body text arrives; the prompt is built and the
\* completion is requested.
LogTextReturn(d, out) ==
    /\ lastQuery = NoQuery
    /\ task[d].pc = "awaitLogText"
    /\ LET t == task[d] IN
       task' = [task EXCEPT ![d] =
           IF out.kind = "error" THEN Caught(t, "fetchFailed")
           ELSE [t EXCEPT !.pc = "awaitCompletion", !.logText = out.text,
                          !.promptLog = Truncate(out.text),
                          !.calls = Append(@, "completion")]]
    /\ UNCHANGED <<analysesDB, envToken, lastQuery>>

\* Lines 122-147: the completion settles; the text is parsed, the record
\* is built and pushed, and the delivery is acknowledged.  (The await of
\* result.response.text() yields once more before the parse; nothing
\* shared is read before it, so the two stretches are one step here.)
CompletionReturn(d, out) ==
    /\ lastQuery = NoQuery
    /\ task[d].pc = "awaitCompletion"
    /\ LET t == [task[d] EXCEPT !.responseText = out.text]
           analysis == IF out.kind = "text" THEN AnalysisOf[out.text]
                       ELSE SyntaxError
           c == GetProp(analysis.v, KeyConclusion)
           g == GetProp(analysis.v, KeySuggestion)
           rec == NewAnalysis(analysesDB, t.event, c.v, g.v, t.logText)
       IN
       IF out.kind # "text"
       THEN /\ task' = [task EXCEPT ![d] =
                            Caught(t, "fetchFailed")]
            /\ UNCHANGED analysesDB
       ELSE IF ~analysis.ok \/ c.throws \/ g.throws
       THEN /\ task' = [task EXCEPT ![d] = Caught(t, "parseFailed")]
            /\ UNCHANGED analysesDB
       ELSE /\ analysesDB' = Push(analysesDB, rec)
            /\ task' = [task EXCEPT ![d] =
                            Finish(t, 200, "stored", rec.id)]
    /\ UNCHANGED <<envToken, lastQuery>>

\* Lines 152-154 and 170-174: GET /api/analyses/:repoId, a synchronous
\* handler: isAuthenticated, then the filter and res.json.  authed records
\* whether the request's session had a user.
Query(param, sessionUser) ==
    /\ lastQuery = NoQuery
    /\ lastQuery' =
           IF IsAuthenticated(sessionUser)
           THEN [param |-> param, authed |-> sessionUser, status |-> 200,
                 body |-> FilterByRepo(analysesDB, param)]
           ELSE [param |-> param, authed |-> sessionUser, status |-> 401,
                 body |-> <<>>]
    /\ UNCHANGED <<analysesDB, envToken, task>>

\* The answer has left the process.  The query handler never awaits, so its
\* answer is sent before any other handler runs: no step of a webhook task
\* falls between Query and QuerySent.
QuerySent ==
    /\ lastQuery # NoQuery
    /\ lastQuery' = NoQuery
    /\ UNCHANGED <<analysesDB, envToken, task>>

Next ==
    \/ \E d \in Deliveries, ev \in Events : Receive(d, ev)
    \/ \E d \in Deliveries, out \in JobsOutcomes : JobsReturn(d, out)
    \/ \E d \in Deliveries, out \in RedirectOutcomes : LogRedirectReturn(d, out)
    \/ \E d \in Deliveries, out \in LogBodyOutcomes : LogBodyReturn(d, out)
    \/ \E d \in Deliveries, out \in LogTextOutcomes : LogTextReturn(d, out)
    \/ \E d \in Deliveries, out \in CompletionOutcomes : CompletionReturn(d, out)
    \/ \E q \in QueryRequests : Query(q.param, q.user)
    \/ QuerySent

Spec == Init /\ [][Next]_vars

\* The step delivery d takes when the call it awaits is answered.
ReturnStep(d) ==
    \/ \E out \in JobsOutcomes : JobsReturn(d, out)
    \/ \E out \in RedirectOutcomes : LogRedirectReturn(d, out)
    \/ \E out \in LogBodyOutcomes : LogBodyReturn(d, out)
    \/ \E out \in LogTextOutcomes : LogTextReturn(d, out)
    \/ \E out \in CompletionOutcomes : CompletionReturn(d, out)

\* Every outbound call is answered in the end, with a result or an error,
\* and the event loop then resumes the task that awaits it; the query
\* handler, which never suspends, runs to its res.json.  The fairness of
\* the tasks is strong because a task cannot be resumed while the query
\* handler runs, which happens again and again but never for long.
FairSpec ==
    /\ Spec
    /\ WF_vars(QuerySent)
    /\ \A d \in Deliveries : SF_vars(ReturnStep(d))

(***************************************************************************)
(* The claims.  Their vocabulary is stated here on its own terms, not      *)
(* through the operators the actions use.                                  *)
(***************************************************************************)
Done(d) == task[d].pc = "done"

\* The event is a completed workflow run that failed.
IsFailedRunEvent(ev) ==
    /\ ev.workflow_run.present
    /\ ev.action = "completed"
    /\ ev.workflow_run.conclusion = "failure"

\* C1: an event whose action is not "completed", whose conclusion is not
\* "failure" or that has no workflow_run is answered 200 in the step that
\* receives it, with no outbound call and the store left as it was, whether
\* or not the credential is set; the delivery stays that way afterwards.
C1_IgnoredStep ==
    \A d \in Deliveries :
        (task'[d].pc # "idle" /\ ~IsFailedRunEvent(task'[d].event)) =>
            /\ task'[d].pc = "done"
            /\ task'[d].responses = <<200>>
            /\ task'[d].calls = <<>>
            /\ task'[d].recId = 0
            /\ task[d].pc = "idle" => analysesDB' = analysesDB

C1_IgnoredEventStoresNothing == [][C1_IgnoredStep]_vars

C1_Witness ==
    /\ ~envToken
    /\ \E d \in Deliveries :
           /\ Done(d)
           /\ task[d].event.action # "completed"
           /\ task[d].responses = <<200>>
    /\ \E d \in Deliveries :
           /\ Done(d)
           /\ ~task[d].event.workflow_run.present
           /\ task[d].responses = <<200>>

\* A completion text is well formed when, with its fences stripped, it is
\* a JSON object that has a conclusion member and a suggestion member.
HasMember(v, key) == \E i \in 1..Len(v.m) : v.m[i].k = key

WellFormedCompletion(text) ==
    LET a == JSONParse(Trim(StripFences(text))) IN
    /\ a.ok
    /\ a.v.t = "object"
    /\ HasMember(a.v, KeyConclusion)
    /\ HasMember(a.v, KeySuggestion)

\* The completion request of delivery d was answered with a text.
GotCompletionText(d) == Done(d) /\ task[d].outcome \in {"parseFailed", "stored"}

\* C2 (as claimed): a delivery whose completion text is not valid JSON, or
\* is valid JSON without the conclusion key or without the suggestion key,
\* ends with no record stored for it.
C2_MalformedOutputStoresNothing ==
    \A d \in Deliveries :
        (GotCompletionText(d) /\ ~WellFormedCompletion(task[d].responseText))
            => task[d].recId = 0

\* C3: the ids of the stored records strictly increase with the position in
\* the store, so no two records share an id.
C3_IdsStrictlyIncreasing ==
    \A i, j \in 1..Len(analysesDB) :
        i < j => analysesDB[i].id < analysesDB[j].id

\* Two deliveries both suspended after their first await at some point, the
\* later one stored first.
C3_Witness ==
    /\ Len(analysesDB) = 2
    /\ task[1].recId = 2
    /\ task[2].recId = 1
    /\ analysesDB[1].repoId # analysesDB[2].repoId

\* C4: a delivery the handler has finished was answered exactly once, with
\* 200 after every outcome but the missing credential and with 400 after
\* that one; an unfinished delivery has no answer yet.
C4_Always200Except400 ==
    \A d \in Deliveries :
        /\ Done(d) =>
             /\ Len(task[d].responses) = 1
             /\ task[d].responses[1] \in {200, 400}
             /\ task[d].responses[1] = 400 =>
                    (~envToken /\ IsFailedRunEvent(task[d].event))
             /\ task[d].outcome \in {"ignored", "noJobFound", "fetchFailed",
                                     "parseFailed", "stored"}
                    => task[d].responses[1] = 200
        /\ ~Done(d) => task[d].responses = <<>>

C4_Witness ==
    \E d, e \in Deliveries :
        /\ Done(d) /\ task[d].outcome = "fetchFailed"
        /\ task[d].calls = <<"jobs", "logRedirect", "logBody", "completion">>
        /\ task[d].responses = <<200>>
        /\ Done(e) /\ task[e].outcome = "parseFailed"
        /\ task[e].responses = <<200>>

\* C5: with the credential missing no delivery issues an outbound call and
\* nothing is stored; a failed-run event is answered 400.
C5_MissingCredentialAborts ==
    ~envToken =>
        /\ analysesDB = <<>>
        /\ \A d \in Deliveries :
               /\ task[d].calls = <<>>
               /\ task[d].pc \in {"idle", "done"}
               /\ task[d].recId = 0
               /\ (Done(d) /\ IsFailedRunEvent(task[d].event))
                      => task[d].responses = <<400>>

C5_Witness ==
    /\ ~envToken
    /\ \E d \in Deliveries :
           /\ Done(d)
           /\ IsFailedRunEvent(task[d].event)
           /\ task[d].responses = <<400>>
           /\ task[d].calls = <<>>

NoFailedJob(jobs) == \A i \in 1..Len(jobs) : jobs[i].conclusion # "failure"

\* The jobs fetch of delivery d has been answered with a job list.
GotJobs(d) == task[d].jobs # <<>>

\* C6: a delivery whose job list holds no job with conclusion "failure"
\* ends right after the jobs fetch: the jobs fetch is its only outbound
\* call, nothing is stored for it and it is answered 200.
C6_NoFailedJobStops ==
    \A d \in Deliveries :
        (GotJobs(d) /\ NoFailedJob(task[d].jobs)) =>
            /\ Done(d)
            /\ task[d].calls = <<"jobs">>
            /\ task[d].recId = 0
            /\ task[d].responses = <<200>>

C6_Witness ==
    \E d \in Deliveries :
        /\ GotJobs(d) /\ NoFailedJob(task[d].jobs)
        /\ Done(d) /\ task[d].calls = <<"jobs">>
        /\ task[d].responses = <<200>>

\* How many times kind occurs in a sequence of calls.
Count(calls, kind) == Cardinality({i \in 1..Len(calls) : calls[i] = kind})

\* C7: when a delivery's job list holds a failed job, the one log request
\* the delivery makes names the failed job with the smallest index.
C7_FirstFailedJobSelected ==
    \A d \in Deliveries :
        /\ (GotJobs(d) /\ ~NoFailedJob(task[d].jobs)) =>
               \E i \in 1..Len(task[d].jobs) :
                   /\ task[d].jobs[i].conclusion = "failure"
                   /\ \A j \in 1..(i - 1) :
                          task[d].jobs[j].conclusion # "failure"
                   /\ task[d].logJobId = task[d].jobs[i].id
                   /\ Count(task[d].calls, "logRedirect") = 1
        /\ Count(task[d].calls, "logRedirect") <= 1

\* The job list has a second failed job after the one whose log is fetched.
C7_Witness ==
    \E d \in Deliveries :
        /\ task[d].logJobId = 20
        /\ "logBody" \in {task[d].calls[i] : i \in 1..Len(task[d].calls)}
        /\ \E i, j \in 1..Len(task[d].jobs) :
               /\ i < j
               /\ task[d].jobs[i].conclusion = "failure"
               /\ task[d].jobs[j].conclusion = "failure"

\* C8 (as claimed): a delivery that ends after one of its upstream calls
\* failed (a rejected call, a log request answered with another status than
\* 302, a log body answered with an HTTP error status) ends with the store
\* as it was and is answered 200.
C8_UpstreamErrorStep ==
    \A d \in Deliveries :
        ( /\ task[d].pc # "done"
          /\ task'[d].pc = "done"
          /\ task[d].upstreamError \/ task'[d].outcome = "fetchFailed" ) =>
            /\ analysesDB' = analysesDB
            /\ task'[d].recId = 0
            /\ task'[d].responses = <<200>>

C8_UpstreamErrorStoresNothing == [][C8_UpstreamErrorStep]_vars

\* The decimal numeral of a natural number, as a path parameter.
DigitChar(n) ==
    CASE n = 0 -> "0" [] n = 1 -> "1" [] n = 2 -> "2" [] n = 3 -> "3"
      [] n = 4 -> "4" [] n = 5 -> "5" [] n = 6 -> "6" [] n = 7 -> "7"
      [] n = 8 -> "8" [] n = 9 -> "9"

RECURSIVE DecimalOf(_)
DecimalOf(n) ==
    IF n < 10 THEN <<DigitChar(n)>>
    ELSE DecimalOf(n \div 10) \o <<DigitChar(n % 10)>>

RepoIds == {ev.repository.id : ev \in Events}

\* The positions of the store that hold a record of repository r.
PositionsOf(r) == {i \in 1..Len(analysesDB) : analysesDB[i].repoId = r}

\* C9: the answer to an authenticated query for repository r is 200 with
\* the stored records of r, each once, in the order of their positions in
\* the store (so with strictly increasing ids).
C9_QueryReturnsRepoRecords ==
    \A r \in RepoIds :
        (lastQuery.authed /\ lastQuery.param = DecimalOf(r)) =>
            LET body == lastQuery.body IN
            /\ lastQuery.status = 200
            /\ Len(body) = Cardinality(PositionsOf(r))
            /\ \A i \in PositionsOf(r) :
                   body[Cardinality({j \in PositionsOf(r) : j <= i})]
                       = analysesDB[i]
            /\ \A k, l \in 1..Len(body) : k < l => body[k].id < body[l].id

\* Two failed runs of one repository were stored, then queried.
C9_Witness ==
    /\ lastQuery.authed
    /\ lastQuery.param = <<"1", "2">>
    /\ Len(lastQuery.body) = 2
    /\ lastQuery.body[1].id = 1
    /\ lastQuery.body[2].id = 2

\* The parameter is a decimal numeral.
IsNumeral(param) ==
    param # <<>> /\ \A i \in 1..Len(param) : DigitValue(param[i]) >= 0

\* No stored record belongs to the repository the parameter names.
NoRecordsFor(param) ==
    \A i \in 1..Len(analysesDB) : DecimalOf(analysesDB[i].repoId) # param

\* C10 (as claimed): an authenticated query whose parameter names a
\* repository without stored records, or is not a number, is answered 200
\* with the empty sequence.
C10_NoRecordsGivesEmpty ==
    (lastQuery.authed
        /\ (~IsNumeral(lastQuery.param) \/ NoRecordsFor(lastQuery.param))) =>
        /\ lastQuery.status = 200
        /\ lastQuery.body = <<>>

\* C11: a query on a session without a user is answered 401 with none of
\* the stored records in its body, whatever the store holds.
C11_UnauthenticatedQueryGets401 ==
    (lastQuery # NoQuery /\ ~lastQuery.authed) =>
        /\ lastQuery.status = 401
        /\ lastQuery.body = <<>>

\* The store holds a record of the repository the refused query asked for.
C11_Witness ==
    /\ lastQuery # NoQuery
    /\ ~lastQuery.authed
    /\ lastQuery.status = 401
    /\ \E i \in 1..Len(analysesDB) :
           DecimalOf(analysesDB[i].repoId) = lastQuery.param

\* The character at position i (from 1) of a log text.
RECURSIVE CharAt(_, _)
CharAt(t, i) ==
    IF i <= Head(t).n THEN Head(t).c ELSE CharAt(Tail(t), i - Head(t).n)

\* The positions at which the runs of a log text start.
RunStarts(t) == {1 + TextLen(SubSeq(t, 1, j - 1)) : j \in 1..Len(t)}

Min(a, b) == IF a <= b THEN a ELSE b

\* p is the first k characters of t, all of t when t has no more than k.
\* A text is constant from one run start to the next, so two texts that
\* agree at every run start of either agree at every position.
IsFirstChars(p, t, k) ==
    /\ TextLen(p) = Min(k, TextLen(t))
    /\ \A i \in RunStarts(p) \cup RunStarts(t) :
           i <= TextLen(p) => CharAt(p, i) = CharAt(t, i)

\* C12: while a delivery awaits its completion, the log text in the prompt
\* it sent is the first 30,000 characters of the log text it fetched; and
\* in the step that stores its record, the record's rawLog is the first
\* 30,000 characters of that text.
C12_TruncationStep ==
    \A d \in Deliveries :
        task[d].pc = "awaitCompletion" =>
            /\ IsFirstChars(task[d].promptLog, task[d].logText, 30000)
            /\ task'[d].outcome = "stored" =>
                   /\ Len(analysesDB') = Len(analysesDB) + 1
                   /\ IsFirstChars(analysesDB'[Len(analysesDB')].rawLog,
                                   task[d].logText, 30000)

C12_LogTruncatedTo30000 == [][C12_TruncationStep]_vars

\* A 50,000 character log was stored cut to 30,000 characters, the last of
\* them from the second run of the log, and another delivery has sent the
\* same log in its prompt.
C12_Witness ==
    /\ \E i \in 1..Len(analysesDB) :
           /\ TextLen(analysesDB[i].rawLog) = 30000
           /\ CharAt(analysesDB[i].rawLog, 30000) = "b"
    /\ \E d \in Deliveries :
           /\ task[d].pc = "awaitCompletion"
           /\ TextLen(task[d].logText) = 50000
           /\ TextLen(task[d].promptLog) = 30000

\* The pairs of strings X, Y the round trip is tried with: plain ones, and
\* an X that holds three backquotes.
RoundTripPairs ==
    { <<TextX, TextY>>, <<(<<"a", BQ, BQ, BQ, "b">>), TextY>> }

\* The JSON object with conclusion x and suggestion y, bare, and wrapped
\* in a ```json ... ``` fence.
RoundTripTexts(x, y) ==
    LET bare == AnalysisJson(x, y)
        fenced == FenceJson \o <<"\n">> \o bare \o <<"\n">> \o Fence
    IN { bare, fenced, fenced \o <<"\n">> }

\* C13 (as claimed): when a delivery that fetched a log of at most 30,000
\* characters is answered with exactly the JSON object of X and Y, bare or
\* fenced, that step stores a record whose conclusion is X and whose
\* suggestion is Y.
C13_RoundTripStep ==
    \A d \in Deliveries : \A xy \in RoundTripPairs :
        ( /\ task[d].pc = "awaitCompletion"
          /\ TextLen(task[d].logText) <= 30000
          /\ task'[d].pc = "done"
          /\ task'[d].outcome # "fetchFailed"
          /\ task'[d].responseText \in RoundTripTexts(xy[1], xy[2]) ) =>
            /\ Len(analysesDB') = Len(analysesDB) + 1
            /\ LET rec == analysesDB'[Len(analysesDB')] IN
               /\ rec.conclusion = JString(xy[1])
               /\ rec.suggestion = JString(xy[2])

C13_RoundTrip == [][C13_RoundTripStep]_vars

AllStages == <<"jobs", "logRedirect", "logBody", "completion">>

\* The completion texts that, with their fences stripped, are JSON.
ParsingTexts ==
    {text \in CompletionTexts : JSONParse(Trim(StripFences(text))).ok}

\* C14: in every step the store before the step is a prefix of the store
\* after it, so no record is updated, reordered or deleted; and the store
\* grows only by one record at a time, in the step in which a delivery
\* that went through every stage (all four calls made and answered, the
\* completion text parsed) ends.
C14_AppendOnlyStep ==
    /\ Len(analysesDB) <= Len(analysesDB')
    /\ SubSeq(analysesDB', 1, Len(analysesDB)) = analysesDB
    /\ analysesDB' # analysesDB =>
           /\ Len(analysesDB') = Len(analysesDB) + 1
           /\ \E d \in Deliveries :
                  /\ task[d].pc = "awaitCompletion"
                  /\ task'[d].pc = "done"
                  /\ task'[d].calls = AllStages
                  /\ task'[d].responseText \in ParsingTexts
                  /\ task'[d].recId = analysesDB'[Len(analysesDB')].id
                  /\ \A e \in Deliveries \ {d} : task'[e] = task[e]

StageOrder ==
    <<"idle", "awaitJobs", "awaitLogRedirect", "awaitLogBody",
      "awaitLogText", "awaitCompletion", "done">>

StageOf(pc) == CHOOSE k \in 1..Len(StageOrder) : StageOrder[k] = pc

\* The await from which each outbound call is issued: the jobs fetch on
\* receipt, each later call when the call before it has been answered (the
\* completion request when the log body has been read).
IssuedFrom(call) ==
    CASE call = "jobs" -> "idle"
      [] call = "logRedirect" -> "awaitJobs"
      [] call = "logBody" -> "awaitLogRedirect"
      [] call = "completion" -> "awaitLogText"

\* C15: in every step each delivery stays where it is, moves to the next
\* stage or ends; its calls are an initial part of jobs fetch, log redirect
\* fetch, log body fetch, completion request, each issued from the state
\* in which the call before it was answered; a delivery that has ended,
\* by a failure, for lack of a failed job or otherwise, never changes
\* again; and a record is stored only in a step from the state awaiting the
\* completion, with a completion text that parses.
C15_StageOrderStep ==
    \A d \in Deliveries :
        LET t == task[d]
            u == task'[d]
        IN
        /\ \/ u = t
           \/ StageOf(u.pc) = StageOf(t.pc) + 1
           \/ u.pc = "done" /\ t.pc # "done"
        /\ u.calls = SubSeq(AllStages, 1, Len(u.calls))
        /\ u.calls # t.calls =>
               /\ u.calls = Append(t.calls, u.calls[Len(u.calls)])
               /\ t.pc = IssuedFrom(u.calls[Len(u.calls)])
               /\ u.pc # "done"
        /\ u.outcome # "none" => u.pc = "done"
        /\ u.recId # t.recId =>
               /\ t.pc = "awaitCompletion"
               /\ u.responseText \in ParsingTexts
               /\ Len(analysesDB') = Len(analysesDB) + 1

C16_NoRetry ==
    /\ \A d \in Deliveries :
           \A i, j \in 1..Len(task[d].calls) :
               i < j => task[d].calls[i] # task[d].calls[j]
    /\ Len(analysesDB) =
           Cardinality({d \in Deliveries : task[d].outcome = "stored"})
    /\ \A d \in Deliveries :
           task[d].outcome # "stored" => task[d].recId = 0

\* One delivery failed at its jobs fetch and made no further call, while
\* another stored its record.
C16_Witness ==
    \E d, e \in Deliveries :
        /\ Done(d) /\ task[d].outcome = "fetchFailed"
        /\ task[d].calls = <<"jobs">>
        /\ task[e].outcome = "stored"
        /\ Len(analysesDB) = 1

C18_IdIsPosition ==
    \A k \in 1..Len(analysesDB) : analysesDB[k].id = k

\* The same failed run was delivered twice; the delivery that arrived
\* second stored first, and both records are in the store.
C18_Witness ==
    /\ Len(analysesDB) = 2
    /\ analysesDB[1].githubRunId = analysesDB[2].githubRunId
    /\ task[2].recId = 1
    /\ task[1].recId = 2
    /\ analysesDB[2].id = 2

Awaiting(d) == task[d].pc \notin {"idle", "done"}

\* C19: whatever the other deliveries are doing, and so also while one of
\* them waits on a call that never returns, a delivery whose call is
\* answered can take its next step, and the next delivery to arrive can
\* be received.  (While the query handler runs, which it does without
\* suspending, no task steps; the property is about the states between
\* handlers.)
C19_StallStaysLocal ==
    lastQuery = NoQuery =>
        \A d \in Deliveries :
            /\ Awaiting(d) => ENABLED ReturnStep(d)
            /\ (task[d].pc = "idle"
                   /\ \A e \in Deliveries : e < d => task[e].pc # "idle")
                  => ENABLED (\E ev \in Events : Receive(d, ev))

\* The first delivery still waits for its jobs fetch, while the delivery
\* that arrived after it has gone through every stage, stored its record
\* and been acknowledged.
C19_Witness ==
    /\ task[1].pc = "awaitJobs"
    /\ task[2].outcome = "stored"
    /\ task[2].calls = AllStages
    /\ task[2].responses = <<200>>
    /\ Len(analysesDB) = 1

\* C20: when every outbound call is answered in the end, every delivery
\* that has been received ends, with exactly one response sent.
C20_HandlerTerminates ==
    \A d \in Deliveries :
        (task[d].pc # "idle") ~> (Done(d) /\ Len(task[d].responses) = 1)

\* A delivery whose every call was answered, the last one with an error,
\* has ended and been answered.
C20_Witness ==
    \E d \in Deliveries :
        /\ Done(d)
        /\ task[d].calls = AllStages
        /\ task[d].outcome = "fetchFailed"
        /\ Len(task[d].responses) = 1

\* C21: no delivery is ever answered twice: in every step each delivery
\* has at most one response, a delivery that has its response keeps it as
\* it is, and the response is sent in the step in which the handler ends,
\* on the early paths (missing credential, no failed job) as on the others.
C21_OneResponseStep ==
    \A d \in Deliveries :
        /\ Len(task'[d].responses) <= 1
        /\ task[d].responses # <<>> => task'[d].responses = task[d].responses
        /\ task'[d].responses # task[d].responses =>
               /\ task[d].pc # "done"
               /\ task'[d].pc = "done"
               /\ task'[d].outcome \in
                      {"ignored", "missingCredential", "noJobFound",
                       "fetchFailed", "parseFailed", "stored"}

C21_AtMostOneResponse == [][C21_OneResponseStep]_vars

\* With the credential missing, one delivery got the early 400 and another
\* was ignored; both have ended with one response.
C21_Witness ==
    \E d, e \in Deliveries :
        /\ task[d].outcome = "missingCredential"
        /\ task[d].responses = <<400>>
        /\ task[e].outcome = "ignored"
        /\ task[e].responses = <<200>>

\* Delivery d ended with a record stored and has been acknowledged.
AckedStored(d) ==
    /\ task[d].outcome = "stored"
    /\ task[d].responses # <<>>

\* C22: a delivery has a response only when its handler has ended; a
\* delivery that stored and has its 200 has its record in the store, under
\* the id it stored it with; and the answer to an authenticated query for
\* a repository holds the record of every delivery of that repository that
\* had been acknowledged as stored when the query was made.
C22_AckAfterStore ==
    /\ \A d \in Deliveries :
           /\ task[d].responses # <<>> => Done(d)
           /\ AckedStored(d) =>
                  /\ task[d].responses = <<200>>
                  /\ \E i \in 1..Len(analysesDB) :
                         /\ analysesDB[i].id = task[d].recId
                         /\ analysesDB[i].githubRunId
                                = task[d].event.workflow_run.id
                         /\ analysesDB[i].repoId = task[d].event.repository.id
    /\ \A r \in RepoIds :
           (lastQuery.authed /\ lastQuery.param = DecimalOf(r)) =>
               \A d \in Deliveries :
                   (AckedStored(d) /\ task[d].event.repository.id = r) =>
                       \E k \in 1..Len(lastQuery.body) :
                           /\ lastQuery.body[k].id = task[d].recId
                           /\ lastQuery.body[k].githubRunId
                                  = task[d].event.workflow_run.id

\* A delivery of repository 12 was acknowledged as stored; a query for
\* repository 12 made afterwards, while another delivery is still in its
\* pipeline, returns its record.
C22_Witness ==
    /\ lastQuery.authed
    /\ lastQuery.param = <<"1", "2">>
    /\ \E d, e \in Deliveries :
           /\ AckedStored(d)
           /\ task[d].event.repository.id = 12
           /\ \E k \in 1..Len(lastQuery.body) :
                  lastQuery.body[k].id = task[d].recId
           /\ Awaiting(e)

=============================================================================
